---- MODULE Spec2Model ----
(***************************************************************************)
(* Model of thedoobot: the highlight poller (dingers/main.py), the         *)
(* transaction inbox processor (transactions/email.py) and its push entry  *)
(* point (transactions/main.py).                                           *)
(*                                                                         *)
(* The poller's main() is split into the steps at which it talks to the    *)
(* outside (schedule fetch, dedup read, each HTTP attempt, dedup write),   *)
(* so that cycles can be run alone (SpecCycle), one after the other (Spec, *)
(* SpecRepeat) or overlapped (SpecConc).  process_email is split at the    *)
(* per-message calls (SpecEmail); SpecInvoke runs one invocation of either *)
(* entry point.  _detect_transaction_type and _parse_trade_block are       *)
(* operators, applied to bounded inputs in SpecDetect and SpecParse.       *)
(***************************************************************************)
EXTENDS Integers, Sequences, FiniteSets, TLC

\* ---------------------------------------------------------------- bounds
MaxGames == 2
MaxHighlights == 2
MaxCycles == 2
MaxDays == 2
MaxMessages == 2
MaxSubject == 4
MaxRaw == 3

\* ------------------------------------------------------- general helpers
SeqsUpTo(S, n) == UNION {[1..k -> S] : k \in 0..n}

RECURSIVE SumLen(_)
SumLen(f) == IF f = <<>> THEN 0 ELSE Len(Head(f).hrs) + SumLen(Tail(f))

\* ------------------------------------------------- highlight poller data
Urls == {"u1", "u2"}
Dates == 1..MaxDays
Procs == 1..MaxCycles

\* abstractGameState / gamePk combinations of a schedule entry (gamePk 0 is
\* a missing or falsy gamePk): one the loop takes, one it skips for its
\* status, one it skips for its gamePk
GameShapes ==
    { [status |-> "Live", gamePk |-> 1],
      [status |-> "Preview", gamePk |-> 1],
      [status |-> "Final", gamePk |-> 0] }

\* main: the game filter of the loop (continue unless Live/Final with a gamePk)
Eligible(game) == game.status \in {"Live", "Final"} /\ game.gamePk # 0

\* a game together with what extract_hr_highlights returns for it: the
\* video urls of its home-run highlights in feed order (empty on a failed or
\* empty feed).  Games the loop skips are never extracted.
GameSet ==
    { g \in [status : {"Live", "Final", "Preview"}, gamePk : {0, 1},
             hrs : SeqsUpTo(Urls, MaxHighlights)] :
        /\ [status |-> g.status, gamePk |-> g.gamePk] \in GameShapes
        /\ (~Eligible(g) => g.hrs = <<>>) }

Schedules == { f \in SeqsUpTo(GameSet, MaxGames) : SumLen(f) <= MaxHighlights }

\* get_games_for_date: the games of the schedule; [] when the fetch raises
get_games_for_date_stale(sched, fetchOk) == sched
get_games_for_date(sched, fetchOk) == IF fetchOk THEN sched ELSE <<>>

\* extract_hr_highlights(game_id)
extract_hr_highlights(game) == game.hrs

\* _video_doc_id: sha256 hex digest of the url; modelled as a table of
\* distinct digests (no collision on the urls of the model)
_video_doc_id_collide(video_url) == "d0"
_video_doc_id(video_url) == IF video_url = "u1" THEN "d1" ELSE "d2"

\* has_posted_video: doc_ref.get().exists on videos/<date>/videos/<doc id>
has_posted_video_never(st, date, video_url) == FALSE
has_posted_video(st, date, video_url) == <<date, _video_doc_id(video_url)>> \in st

\* mark_video_posted: doc_ref.set(...) on videos/<date>/videos/<doc id>
mark_video_posted(st, date, video_url) == st \cup {<<date, _video_doc_id(video_url)>>}

\* ------------------------------------------------ webhook post with retry
Statuses == {200, 404, 503}
Outcomes ==
    { [kind |-> "HTTP", status |-> s] : s \in Statuses }
      \cup { [kind |-> "ConnectionError", status |-> 0],
             [kind |-> "Timeout", status |-> 0] }

NoAnswer == [kind |-> "none", status |-> 0]
NoExc == [kind |-> "none", status |-> 0]
StoreError == [kind |-> "StoreError", status |-> 0]

\* requests.Response.raise_for_status raises HTTPError for 4xx and 5xx
RaisesForStatus(status) == status >= 400 /\ status < 600

\* requests.Response.__bool__ is Response.ok: true iff raise_for_status
\* would not raise
ResponseTruthy(status) == ~RaisesForStatus(status)

\* the exception the attempt raises for outcome o (NoExc when it returns)
ExcOf(o) ==
    IF o.kind = "HTTP"
    THEN IF RaisesForStatus(o.status)
         THEN [kind |-> "HTTPError", status |-> o.status]
         ELSE NoExc
    ELSE o

retryable_status_codes == {429, 500, 502, 503, 504}

\* _should_retry_http_error: status_code is exception.response.status_code
\* "if exception.response else None"; the set below is {status} or {} (None)
_should_retry_http_error_any(e) == e.kind = "HTTPError"
_should_retry_http_error(e) ==
    IF e.kind # "HTTPError"
    THEN FALSE
    ELSE LET status_code == IF ResponseTruthy(e.status) THEN {e.status} ELSE {}
         IN  status_code # {} /\ status_code \subseteq retryable_status_codes

\* the retry= predicate of the @retry decorator
RetryPredicate(e) ==
    \/ e.kind = "ConnectionError"
    \/ e.kind = "Timeout"
    \/ _should_retry_http_error(e)

\* stop=stop_after_attempt(3)
stop_after_attempt_late(n) == n >= 4
stop_after_attempt(n) == n >= 3

\* ------------------------------------------------------------------ state
VARIABLES
    webhookSet,   \* DISCORD_DINGERS_WEBHOOK_URL is set (truthy)
    schedule,     \* what the stats API serves: the games with their HR urls
    today,        \* the latest UTC date a cycle read from the clock
    store,        \* dedup store: the <<date, doc id>> of the existing records
    delivered,    \* history: webhook posts answered 200, per <<date, url>>
    marked,       \* history: <<date, url>> whose mark_video_posted completed
    markFailed,   \* history: some mark_video_posted raised
    pc,           \* position of each poll cycle in main
    date_str,     \* main's date_str
    games,        \* main's games (the result of get_todays_games)
    gi,           \* index of the game the outer loop is at
    hi,           \* index of the highlight the inner loop is at
    attempts,     \* HTTP attempts made by the current post_to_discord call
    last,         \* outcome of the latest of these attempts
    exc,          \* the exception in flight to main's except clause
    checked,      \* history: has_posted_video calls that returned in this cycle
    statusCode,   \* statusCode of the object main returned (0 before)
    fetched,      \* history: "ok" / "failed": how the cycle's schedule fetch ended
    tried,        \* history: the urls the cycle made an HTTP attempt for
    failed        \* history: the urls whose post_to_discord call raised in the cycle

pollVars == <<webhookSet, schedule, today, store, delivered, marked, markFailed,
              pc, date_str, games, gi, hi, attempts, last, exc, checked, statusCode,
              fetched, tried, failed>>

Highlights(c) == extract_hr_highlights(games[c][gi[c]])
CurUrl(c) == Highlights(c)[hi[c]]
Finished(c) == pc[c] \in {"done", "crashed"}
Active(c) == pc[c] \notin {"idle", "done", "crashed"}

PollInit ==
    /\ webhookSet \in BOOLEAN
    /\ schedule \in Schedules
    /\ today = 1
    /\ store = {}
    /\ delivered = [k \in Dates \X Urls |-> 0]
    /\ marked = {}
    /\ markFailed = FALSE
    /\ pc = [c \in Procs |-> "idle"]
    /\ date_str = [c \in Procs |-> 0]
    /\ games = [c \in Procs |-> <<>>]
    /\ gi = [c \in Procs |-> 0]
    /\ hi = [c \in Procs |-> 0]
    /\ attempts = [c \in Procs |-> 0]
    /\ last = [c \in Procs |-> NoAnswer]
    /\ exc = [c \in Procs |-> NoExc]
    /\ checked = [c \in Procs |-> 0]
    /\ statusCode = [c \in Procs |-> 0]
    /\ fetched = [c \in Procs |-> "none"]
    /\ tried = [c \in Procs |-> {}]
    /\ failed = [c \in Procs |-> {}]

\* main: date_str = now, get_todays_games() and entry into the game loop.
\* The UTC clock never runs backwards, and dates are only compared for
\* equality: the first cycle reads date 1, a later one reads the date of the
\* cycle started before it or the next date.
\* get_games_for_date returns [] when the schedule fetch raises.
Begin(c) ==
    /\ pc[c] = "idle"
    /\ \E fetchOk \in BOOLEAN :
          /\ games' = [games EXCEPT ![c] = get_games_for_date(schedule, fetchOk)]
          /\ fetched' = [fetched EXCEPT ![c] = IF fetchOk THEN "ok" ELSE "failed"]
    /\ \E d \in Dates :
          /\ d >= today
          /\ d <= today + 1
          /\ (\A p \in Procs : pc[p] = "idle") => d = today
          /\ today' = d
          /\ date_str' = [date_str EXCEPT ![c] = d]
    /\ gi' = [gi EXCEPT ![c] = 1]
    /\ pc' = [pc EXCEPT ![c] = "game"]
    /\ UNCHANGED <<tried, failed, webhookSet, schedule, store, delivered, marked, markFailed,
                   hi, attempts, last, exc, checked, statusCode>>

\* cycles run one after the other (the deployment's schedule)
StartCycle(c) ==
    /\ \A d \in Procs \ {c} : ~Active(d)
    /\ (IF c = 1 THEN TRUE ELSE Finished(c - 1))
    /\ Begin(c)

\* two cycles that may overlap
ConcProcs == {1, 2}

StartCycleConc(c) ==
    /\ c \in ConcProcs
    /\ (IF c = 1 THEN TRUE ELSE pc[c - 1] # "idle")
    /\ Begin(c)

\* for game in games: a game that is not Live/Final or has no gamePk
SkipGame(c) ==
    /\ pc[c] = "game"
    /\ gi[c] <= Len(games[c])
    /\ ~Eligible(games[c][gi[c]])
    /\ gi' = [gi EXCEPT ![c] = @ + 1]
    /\ UNCHANGED <<fetched, tried, failed,
                   webhookSet, schedule, today, store, delivered, marked, markFailed,
                   pc, date_str, games, hi, attempts, last, exc, checked, statusCode>>

\* highlights = extract_hr_highlights(game_id); enter the highlight loop
EnterGame(c) ==
    /\ pc[c] = "game"
    /\ gi[c] <= Len(games[c])
    /\ Eligible(games[c][gi[c]])
    /\ hi' = [hi EXCEPT ![c] = 1]
    /\ pc' = [pc EXCEPT ![c] = "hl"]
    /\ UNCHANGED <<fetched, tried, failed,
                   webhookSet, schedule, today, store, delivered, marked, markFailed,
                   date_str, games, gi, attempts, last, exc, checked, statusCode>>

\* the highlight loop of a game is exhausted: next game
EndGame(c) ==
    /\ pc[c] = "hl"
    /\ hi[c] > Len(Highlights(c))
    /\ gi' = [gi EXCEPT ![c] = @ + 1]
    /\ pc' = [pc EXCEPT ![c] = "game"]
    /\ UNCHANGED <<fetched, tried, failed,
                   webhookSet, schedule, today, store, delivered, marked, markFailed,
                   date_str, games, hi, attempts, last, exc, checked, statusCode>>

\* the game loop is exhausted: main returns its status object
Return(c) ==
    /\ pc[c] = "game"
    /\ gi[c] > Len(games[c])
    /\ statusCode' = [statusCode EXCEPT ![c] = 200]
    /\ pc' = [pc EXCEPT ![c] = "done"]
    /\ UNCHANGED <<fetched, tried, failed,
                   webhookSet, schedule, today, store, delivered, marked, markFailed,
                   date_str, games, gi, hi, attempts, last, exc, checked>>

\* if has_posted_video(...): continue        else fall into the try block
CheckPosted(c) ==
    /\ pc[c] = "hl"
    /\ hi[c] <= Len(Highlights(c))
    /\ checked' = [checked EXCEPT ![c] = @ + 1]
    /\ IF has_posted_video(store, date_str[c], CurUrl(c))
       THEN /\ hi' = [hi EXCEPT ![c] = @ + 1]
            /\ pc' = pc
       ELSE /\ pc' = [pc EXCEPT ![c] = "post"]
            /\ hi' = hi
    /\ UNCHANGED <<fetched, tried, failed,
                   webhookSet, schedule, today, store, delivered, marked, markFailed,
                   date_str, games, gi, attempts, last, exc, statusCode>>

\* the dedup read raises (outside main's try): the exception leaves main
CheckRaises(c) ==
    /\ pc[c] = "hl"
    /\ hi[c] <= Len(Highlights(c))
    /\ pc' = [pc EXCEPT ![c] = "crashed"]
    /\ UNCHANGED <<fetched, tried, failed,
                   webhookSet, schedule, today, store, delivered, marked, markFailed,
                   date_str, games, gi, hi, attempts, last, exc, checked, statusCode>>

\* post_to_discord with no webhook url: prints and returns False, no request
PostNoWebhook(c) ==
    /\ pc[c] = "post"
    /\ ~webhookSet
    /\ pc' = [pc EXCEPT ![c] = "mark"]
    /\ UNCHANGED <<fetched, tried, failed,
                   webhookSet, schedule, today, store, delivered, marked, markFailed,
                   date_str, games, gi, hi, attempts, last, exc, checked, statusCode>>

\* one attempt of post_to_discord under the @retry decorator: requests.post,
\* raise_for_status, then tenacity's decision (retry, or reraise the last error)
Attempt(c) ==
    /\ pc[c] = "post"
    /\ webhookSet
    /\ \E o \in Outcomes :
         LET e == ExcOf(o)
             n == attempts[c] + 1
         IN  /\ attempts' = [attempts EXCEPT ![c] = n]
             /\ last' = [last EXCEPT ![c] = o]
             /\ tried' = [tried EXCEPT ![c] = @ \cup {CurUrl(c)}]
             /\ delivered' =
                  IF e = NoExc
                  THEN [delivered EXCEPT ![<<date_str[c], CurUrl(c)>>] = @ + 1]
                  ELSE delivered
             /\ IF e = NoExc
                THEN /\ pc' = [pc EXCEPT ![c] = "mark"]
                     /\ exc' = exc
                ELSE IF RetryPredicate(e) /\ ~stop_after_attempt(n)
                THEN /\ pc' = pc
                     /\ exc' = exc
                ELSE /\ pc' = [pc EXCEPT ![c] = "except"]
                     /\ exc' = [exc EXCEPT ![c] = e]
             /\ failed' =
                  IF e # NoExc /\ ~(RetryPredicate(e) /\ ~stop_after_attempt(n))
                  THEN [failed EXCEPT ![c] = @ \cup {CurUrl(c)}]
                  ELSE failed
    /\ UNCHANGED <<fetched, webhookSet, schedule, today, store, marked, markFailed,
                   date_str, games, gi, hi, checked, statusCode>>

\* mark_video_posted after post_to_discord returned: the record is written
Mark(c) ==
    /\ pc[c] = "mark"
    /\ store' = mark_video_posted(store, date_str[c], CurUrl(c))
    /\ marked' = marked \cup {<<date_str[c], CurUrl(c)>>}
    /\ hi' = [hi EXCEPT ![c] = @ + 1]
    /\ attempts' = [attempts EXCEPT ![c] = 0]
    /\ last' = [last EXCEPT ![c] = NoAnswer]
    /\ pc' = [pc EXCEPT ![c] = "hl"]
    /\ UNCHANGED <<fetched, tried, failed,
                   webhookSet, schedule, today, delivered, markFailed,
                   date_str, games, gi, exc, checked, statusCode>>

\* mark_video_posted raises (the store write fails): nothing is written
MarkRaises(c) ==
    /\ pc[c] = "mark"
    /\ markFailed' = TRUE
    /\ exc' = [exc EXCEPT ![c] = StoreError]
    /\ pc' = [pc EXCEPT ![c] = "except"]
    /\ UNCHANGED <<fetched, tried, failed,
                   webhookSet, schedule, today, store, delivered, marked,
                   date_str, games, gi, hi, attempts, last, checked, statusCode>>

\* a handler that lets the error out of main
HandlerAborts(c) ==
    /\ pc[c] = "except"
    /\ pc' = [pc EXCEPT ![c] = "crashed"]
    /\ UNCHANGED <<fetched, tried, failed,
                   webhookSet, schedule, today, store, delivered, marked, markFailed,
                   date_str, games, gi, hi, attempts, last, exc, checked, statusCode>>

\* a handler that records the highlight as posted
HandlerRecords(c) ==
    /\ pc[c] = "except"
    /\ store' = mark_video_posted(store, date_str[c], CurUrl(c))
    /\ marked' = marked \cup {<<date_str[c], CurUrl(c)>>}
    /\ exc' = [exc EXCEPT ![c] = NoExc]
    /\ attempts' = [attempts EXCEPT ![c] = 0]
    /\ last' = [last EXCEPT ![c] = NoAnswer]
    /\ hi' = [hi EXCEPT ![c] = @ + 1]
    /\ pc' = [pc EXCEPT ![c] = "hl"]
    /\ UNCHANGED <<fetched, tried, failed,
                   webhookSet, schedule, today, delivered, markFailed,
                   date_str, games, gi, checked, statusCode>>

\* except Exception as e: print(...); the loop goes on with the next highlight
Handler(c) ==
    /\ pc[c] = "except"
    /\ exc' = [exc EXCEPT ![c] = NoExc]
    /\ attempts' = [attempts EXCEPT ![c] = 0]
    /\ last' = [last EXCEPT ![c] = NoAnswer]
    /\ hi' = [hi EXCEPT ![c] = @ + 1]
    /\ pc' = [pc EXCEPT ![c] = "hl"]
    /\ UNCHANGED <<fetched, tried, failed,
                   webhookSet, schedule, today, store, delivered, marked, markFailed,
                   date_str, games, gi, checked, statusCode>>

CycleStep(c) ==
    \/ SkipGame(c)
    \/ EnterGame(c)
    \/ EndGame(c)
    \/ Return(c)
    \/ CheckPosted(c)
    \/ CheckRaises(c)
    \/ PostNoWebhook(c)
    \/ Attempt(c)
    \/ Mark(c)
    \/ MarkRaises(c)
    \/ Handler(c)

\* ------------------------------------------------ transaction processor data
CLAIM == "claim"
DROP == "drop"
TRADE == "trade"
BLOCK == "block"
DRAFT == "draft"
UNKNOWN == "unknown"
Types == {CLAIM, DROP, TRADE, BLOCK, DRAFT, UNKNOWN}

\* the parsers of CLAIM, DROP and DRAFT always return a dict (their fallback
\* is {"raw": text}); _parse_trade_block and _parse_trade may return None
MayYieldNone(ttype) == ttype \in {BLOCK, TRADE}

\* a listed message, by what the pass reads of it: the type its subject
\* classifies as (_detect_transaction_type), whether _extract_html_body
\* finds an HTML body, and whether the type's parser returns data for that
\* body (FALSE: it returns None).
\* The pass treats DROP and DRAFT as it treats CLAIM (a parser that always
\* returns a dict, the transactions webhook): CLAIM stands for the three.
PassTypes == {CLAIM, TRADE, BLOCK, UNKNOWN}

MsgSet ==
    { m \in [ttype : PassTypes, html : BOOLEAN, data : BOOLEAN] :
        /\ (m.data => m.html /\ m.ttype # UNKNOWN)
        /\ (m.html /\ m.ttype # UNKNOWN /\ ~MayYieldNone(m.ttype) => m.data) }
Inboxes == SeqsUpTo(MsgSet, MaxMessages)
MsgIds == 1..MaxMessages

\* _process_single_message: webhook_url = trade-block url for BLOCK, else the
\* transactions url
HookOfSwapped(ttype) == IF ttype = BLOCK THEN "transactions" ELSE "trade_block"
HookOf(ttype) == IF ttype = BLOCK THEN "trade_block" ELSE "transactions"

\* _format_discord_message: the emoji and title of the type, and the details
\* section: the type's rendering of data, or "" when data is None
\* (every "elif transaction_type == X and data" fails, so the else branch)
_format_discord_message_untitled(transaction_type, data) ==
    [title |-> "", details |-> IF data THEN transaction_type ELSE ""]
_format_discord_message(transaction_type, data) ==
    [title |-> transaction_type, details |-> IF data THEN transaction_type ELSE ""]

VARIABLES
    txUrlSet,      \* DISCORD_TRANSACTIONS_WEBHOOK_URL is set
    blockUrlSet,   \* DISCORD_TRADE_BLOCK_WEBHOOK_URL is set
    inbox,         \* the messages the listing call returns (label + INBOX)
    epc,           \* position of process_email
    mi,            \* index of the message the loop is at
    listed,        \* "none", "ok" (listing returned) or "failed" (it raised)
    status,        \* "status" of the dict process_email returned ("none" before)
    hasList,       \* the returned dict carries the "processed" list
    processed,     \* process_email's processed list
    posts,         \* history: the webhook posts made, in order
    visited,       \* history: ids _process_single_message was called for
    raisedIds,     \* history: ids whose _process_single_message raised
    archiveCalls,  \* history: modify(removeLabelIds INBOX) calls issued, per id
    archRaised,    \* history: ids whose archive call inside the try raised
    archived       \* ids whose INBOX label was removed

emailVars == <<txUrlSet, blockUrlSet, inbox, epc, mi, listed, status, hasList,
               processed, posts, visited, raisedIds, archiveCalls, archRaised, archived>>

\* ---------------------------------------------- push entry point (main.py)
\* request.get_json(silent=True), by what main reads of it:
\*   kind    "none": no JSON body (None); "value": a JSON value that is not an
\*           object (array, string, number, boolean); "object": a dict
\*   truthy  its truth value in Python (an empty dict/array/string, 0 and
\*           false are falsy)
\*   action  the "action" key: absent, "renew_watch" or another value
\*   message the "message" key: absent; null; a dict without "data"; a dict
\*           whose "data" decodes to JSON; a dict whose "data" does not decode
Bodies ==
    { b \in [kind : {"none", "value", "object"}, truthy : BOOLEAN,
              action : {"absent", "renew_watch", "other"},
              message : {"absent", "null", "nodata", "data", "baddata"}] :
        /\ (b.kind = "none" => ~b.truthy)
        /\ (b.kind # "object" => b.action = "absent" /\ b.message = "absent")
        /\ (b.kind = "object" /\ (b.action # "absent" \/ b.message # "absent") => b.truthy) }

NoBody == [kind |-> "none", truthy |-> FALSE, action |-> "absent", message |-> "absent"]
NoResponse == [code |-> 0, status |-> "none"]

VARIABLES
    req,          \* request_json of the request main is called with
    mpc,          \* position of transactions main
    resp,         \* the (body status, HTTP code) main returned
    renewCalls,   \* history: calls of renew_gmail_watch
    emailCalls    \* history: calls of process_email

entryVars == <<req, mpc, resp, renewCalls, emailCalls>>

\* --------------------------------------------- subject classification
\* a subject line: its words in order, and its letter case
SubjectWords ==
    { "player(s)", "claimed", "free agents added to pool", "trade", "executed",
      "block changed", "draft pick made", "re:" }

Subjects == [words : SeqsUpTo(SubjectWords, MaxSubject),
             case : {"lower", "upper", "title"}]

\* str.lower()
lower(subj) == [subj EXCEPT !.case = "lower"]

\* "needle in subject" for a lower-case needle given by its words: the needle
\* occurs at some position, letter for letter
Contains(subj, needle) ==
    /\ subj.case = "lower"
    /\ \E i \in 1..Len(subj.words) :
          /\ i + Len(needle) - 1 <= Len(subj.words)
          /\ SubSeq(subj.words, i, i + Len(needle) - 1) = needle

\* _detect_transaction_type
_detect_transaction_type_draft_first(subj) ==
    LET subject_l == lower(subj)
    IN  IF Contains(subject_l, <<"draft pick made">>) THEN DRAFT
        ELSE IF Contains(subject_l, <<"player(s)", "claimed">>) THEN CLAIM
        ELSE IF Contains(subject_l, <<"free agents added to pool">>) THEN DROP
        ELSE IF Contains(subject_l, <<"trade", "executed">>) THEN TRADE
        ELSE IF Contains(subject_l, <<"trade", "block changed">>) THEN BLOCK
        ELSE UNKNOWN
_detect_transaction_type(subj) ==
    LET subject_l == lower(subj)
    IN  IF Contains(subject_l, <<"player(s)", "claimed">>) THEN CLAIM
        ELSE IF Contains(subject_l, <<"free agents added to pool">>) THEN DROP
        ELSE IF Contains(subject_l, <<"trade", "executed">>) THEN TRADE
        ELSE IF Contains(subject_l, <<"trade", "block changed">>) THEN BLOCK
        ELSE IF Contains(subject_l, <<"draft pick made">>) THEN DRAFT
        ELSE UNKNOWN

VARIABLES
    subject,      \* the subject _detect_transaction_type is called with
    ttypeOut      \* what it returned ("none" before the call)

detectVars == <<subject, ttypeOut>>

NoSubject == [words |-> <<>>, case |-> "lower"]

DetectIdle ==
    /\ subject = NoSubject
    /\ ttypeOut = "none"

DetectInit ==
    /\ subject \in Subjects
    /\ ttypeOut = "none"

\* the call transaction_type = _detect_transaction_type(subject)
Detect ==
    /\ ttypeOut = "none"
    /\ ttypeOut' = _detect_transaction_type(subject)
    /\ UNCHANGED subject

\* ------------------------------------------------- trade block parsing
\* A string is modelled by its tokens: "sp" a space, "nl" a newline, anything
\* else a word.  "" is <<>>.
Whitespace == {"sp", "nl"}
IsWord(tok) == tok \notin Whitespace

\* str.strip()
RECURSIVE lstrip(_)
lstrip(str) ==
    IF str # <<>> /\ Head(str) \in Whitespace THEN lstrip(Tail(str)) ELSE str

RECURSIVE rstrip(_)
rstrip(str) ==
    IF str # <<>> /\ str[Len(str)] \in Whitespace
    THEN rstrip(SubSeq(str, 1, Len(str) - 1))
    ELSE str

strip(str) == rstrip(lstrip(str))

\* the labels of the email in the order Fantrax prints them
PlayersOffered == 1
PositionsOffered == 2
StatsOffered == 3
PositionsNeeded == 4
StatsNeeded == 5
Comment == 6
Labels == 1..6

PlayerTokens == {"n1", "n2", "sp", "nl"}
Teams == {<<>>, <<"Grand Salamis">>, <<"The Don Orsillo Open", "Grand Salamis">>}
FieldShapes == {"absent", "blank", "text"}

\* the text of a trade block email, by what the regular expressions read:
\*   team    the " - "-joined parts between the first "- " and " has made
\*           changes to the Trade Block" (<<>>: the phrase does not occur)
\*   labels  the labels that occur ("<label>:")
\*   body    what follows each label up to the next label or the end
\* built from the team, the players section (has_players, raw) and the
\* shape of each of the other sections
TradeBlockText(tm, has_players, raw, shape) ==
    [team |-> tm,
     labels |-> {l \in Labels :
                    IF l = PlayersOffered THEN has_players ELSE shape[l] # "absent"},
     body |-> [l \in Labels |->
                 IF l = PlayersOffered
                 THEN raw
                 ELSE IF shape[l] = "text" THEN <<"sp", "w", "sp">> ELSE <<"sp">>]]

Sentinel == <<"(None specified)">>

\* extract_section(label, next_label): re.search(label:(.*?)next_label:),
\* group(1).strip() on a match, "" otherwise
extract_section(text, label, next_label) ==
    IF label \in text.labels /\ next_label \in text.labels
    THEN strip(text.body[label])
    ELSE <<>>

\* re.search(r"Comment:(.*?)(?:Note that|$)"): group(1).strip() or ""
extract_comment(text) ==
    IF Comment \in text.labels THEN strip(text.body[Comment]) ELSE <<>>

\* re.split(r"\n+|\s{2,}", players_raw): a token separates two pieces when it
\* is a newline or belongs to a run of two or more whitespace tokens
IsSeparator(raw, i) ==
    \/ raw[i] = "nl"
    \/ /\ raw[i] = "sp"
       /\ \/ (i > 1 /\ raw[i - 1] \in Whitespace)
          \/ (i < Len(raw) /\ raw[i + 1] \in Whitespace)

\* [p.strip() for p in re.split(...) if p.strip()]
Kept(piece) == IF strip(piece) # <<>> THEN <<strip(piece)>> ELSE <<>>

RECURSIVE SplitFrom(_, _, _)
SplitFrom(raw, i, piece) ==
    IF i > Len(raw)
    THEN Kept(piece)
    ELSE IF IsSeparator(raw, i)
    THEN Kept(piece) \o SplitFrom(raw, i + 1, <<>>)
    ELSE SplitFrom(raw, i + 1, Append(piece, raw[i]))

split_players(players_raw) == SplitFrom(players_raw, 1, <<>>)

\* x or "(None specified)"
or_sentinel_never(x) == x
or_sentinel(x) == IF x = <<>> THEN Sentinel ELSE x

NoOffer ==
    [none |-> TRUE, team |-> <<>>, players_offered |-> <<>>,
     positions_offered |-> <<>>, stats_offered |-> <<>>,
     positions_needed |-> <<>>, stats_needed |-> <<>>, comment |-> <<>>]

\* _parse_trade_block: None without a team match; team is the text after the
\* last " - " (rsplit(" - ", 1)[-1])
_parse_trade_block(text) ==
    IF text.team = <<>>
    THEN NoOffer
    ELSE [none |-> FALSE,
          team |-> <<text.team[Len(text.team)]>>,
          players_offered |->
              split_players(extract_section(text, PlayersOffered, PositionsOffered)),
          positions_offered |->
              or_sentinel(extract_section(text, PositionsOffered, StatsOffered)),
          stats_offered |->
              or_sentinel(extract_section(text, StatsOffered, PositionsNeeded)),
          positions_needed |->
              or_sentinel(extract_section(text, PositionsNeeded, StatsNeeded)),
          stats_needed |->
              or_sentinel(extract_section(text, StatsNeeded, Comment)),
          comment |-> extract_comment(text)]

VARIABLES
    blockText,    \* the text _parse_trade_block is called with
    parsed,       \* the call has returned
    offer         \* what it returned

parseVars == <<blockText, parsed, offer>>

NoText == [team |-> <<>>, labels |-> {},
           body |-> [l \in Labels |-> IF l = PlayersOffered THEN <<>> ELSE <<"sp">>]]

ParseIdle ==
    /\ blockText = NoText
    /\ parsed = FALSE
    /\ offer = NoOffer

ParseInit ==
    /\ \E tm \in Teams, has_players \in BOOLEAN,
          shape \in [Labels \ {PlayersOffered} -> FieldShapes] :
            \E raw \in (IF has_players THEN SeqsUpTo(PlayerTokens, MaxRaw) ELSE {<<>>}) :
                blockText = TradeBlockText(tm, has_players, raw, shape)
    /\ parsed = FALSE
    /\ offer = NoOffer

\* the call data = _parse_trade_block(text)
ParseBlock ==
    /\ ~parsed
    /\ parsed' = TRUE
    /\ offer' = _parse_trade_block(blockText)
    /\ UNCHANGED blockText

pureVars == <<detectVars, parseVars>>

vars == <<pollVars, emailVars, entryVars, pureVars>>

UrlSet(hook) == IF hook = "trade_block" THEN blockUrlSet ELSE txUrlSet

EmailInit ==
    /\ txUrlSet \in BOOLEAN
    /\ blockUrlSet \in BOOLEAN
    /\ inbox \in Inboxes
    /\ epc = "start"
    /\ mi = 0
    /\ listed = "none"
    /\ status = "none"
    /\ hasList = FALSE
    /\ processed = <<>>
    /\ posts = <<>>
    /\ visited = {}
    /\ raisedIds = {}
    /\ archiveCalls = [m \in MsgIds |-> 0]
    /\ archRaised = {}
    /\ archived = {}

\* process_email up to the loop: service, label lookup, listing
\*   "svc":   _get_gmail_service or _get_label_id raises (not caught here)
\*   "label": the label is not found     -> {"status": "error", ...}
\*   "list":  the listing call raises    -> {"status": "error", ...}
\*   "ok":    the listing returns inbox; empty -> {"status": "skipped", ...}
ListMessages ==
    /\ epc = "start"
    /\ \E o \in {"svc", "label", "list", "ok"} :
         /\ epc' = IF o = "svc" THEN "raised"
                   ELSE IF o = "ok" /\ inbox # <<>> THEN "loop" ELSE "done"
         /\ listed' = IF o = "ok" THEN "ok" ELSE IF o = "list" THEN "failed" ELSE "none"
         /\ status' = IF o \in {"label", "list"} THEN "error"
                      ELSE IF o = "ok" /\ inbox = <<>> THEN "skipped" ELSE "none"
    /\ mi' = 1
    /\ UNCHANGED <<txUrlSet, blockUrlSet, inbox, hasList, processed, posts, visited,
                   raisedIds, archiveCalls, archRaised, archived>>

\* result = _process_single_message(...) inside the try of the loop:
\*   the fetch raises | UNKNOWN -> None | no HTML body -> None |
\*   body decoding / extraction raises | no webhook url -> None |
\*   the post raises | the post succeeds -> {"message_id", "type"}
\* a result is appended to processed; a raise goes to the except clause
ProcessSingle ==
    /\ epc = "loop"
    /\ mi <= Len(inbox)
    /\ visited' = visited \cup {mi}
    /\ LET m == inbox[mi]
           hook == HookOf(m.ttype)
       IN \E fetchOk \in BOOLEAN, parseOk \in BOOLEAN, postOk \in BOOLEAN :
            IF ~fetchOk
            THEN /\ epc' = "handler"
                 /\ raisedIds' = raisedIds \cup {mi}
                 /\ UNCHANGED <<posts, processed>>
            ELSE IF m.ttype = UNKNOWN
            THEN /\ epc' = "archive"
                 /\ UNCHANGED <<posts, processed, raisedIds>>
            ELSE IF ~m.html
            THEN /\ epc' = "archive"
                 /\ UNCHANGED <<posts, processed, raisedIds>>
            ELSE IF ~parseOk
            THEN /\ epc' = "handler"
                 /\ raisedIds' = raisedIds \cup {mi}
                 /\ UNCHANGED <<posts, processed>>
            ELSE IF ~UrlSet(hook)
            THEN /\ epc' = "archive"
                 /\ UNCHANGED <<posts, processed, raisedIds>>
            ELSE /\ posts' = Append(posts,
                              [message_id |-> mi, hook |-> hook, ok |-> postOk,
                               content |-> _format_discord_message(m.ttype, m.data)])
                 /\ IF postOk
                    THEN /\ processed' = Append(processed, [message_id |-> mi, type |-> m.ttype])
                         /\ epc' = "archive"
                         /\ UNCHANGED raisedIds
                    ELSE /\ epc' = "handler"
                         /\ raisedIds' = raisedIds \cup {mi}
                         /\ UNCHANGED processed
    /\ UNCHANGED <<txUrlSet, blockUrlSet, inbox, mi, listed, status, hasList,
                   archiveCalls, archRaised, archived>>

\* a try block that ends without the archive call
ArchiveInTryOmitted ==
    /\ epc = "archive"
    /\ mi' = mi + 1
    /\ epc' = "loop"
    /\ UNCHANGED <<txUrlSet, blockUrlSet, inbox, listed, status, hasList,
                   processed, posts, visited, raisedIds, archiveCalls, archRaised, archived>>

\* "Always archive": the modify call at the end of the try block
ArchiveInTry ==
    /\ epc = "archive"
    /\ archiveCalls' = [archiveCalls EXCEPT ![mi] = @ + 1]
    /\ \E ok \in BOOLEAN :
         IF ok
         THEN /\ archived' = archived \cup {mi}
              /\ mi' = mi + 1
              /\ epc' = "loop"
              /\ UNCHANGED archRaised
         ELSE /\ archRaised' = archRaised \cup {mi}
              /\ epc' = "handler"
              /\ UNCHANGED <<archived, mi>>
    /\ UNCHANGED <<txUrlSet, blockUrlSet, inbox, listed, status, hasList,
                   processed, posts, visited, raisedIds>>

\* a handler that lets the error out of process_email
ArchiveInHandlerReraises ==
    /\ epc = "handler"
    /\ epc' = "raised"
    /\ UNCHANGED <<txUrlSet, blockUrlSet, inbox, mi, listed, status, hasList,
                   processed, posts, visited, raisedIds, archiveCalls, archRaised, archived>>

\* a handler that only logs
ArchiveInHandlerSkipped ==
    /\ epc = "handler"
    /\ mi' = mi + 1
    /\ epc' = "loop"
    /\ UNCHANGED <<txUrlSet, blockUrlSet, inbox, listed, status, hasList,
                   processed, posts, visited, raisedIds, archiveCalls, archRaised, archived>>

\* except Exception: "Still archive": the modify call of the handler, whose
\* own exception is swallowed (except Exception: pass)
ArchiveInHandler ==
    /\ epc = "handler"
    /\ archiveCalls' = [archiveCalls EXCEPT ![mi] = @ + 1]
    /\ \E ok \in BOOLEAN :
         archived' = IF ok THEN archived \cup {mi} ELSE archived
    /\ mi' = mi + 1
    /\ epc' = "loop"
    /\ UNCHANGED <<txUrlSet, blockUrlSet, inbox, listed, status, hasList,
                   processed, posts, visited, raisedIds, archRaised>>

\* the loop is exhausted: return {"status": "ok", "processed": processed}
ReturnProcessed ==
    /\ epc = "loop"
    /\ mi > Len(inbox)
    /\ status' = "ok"
    /\ hasList' = TRUE
    /\ epc' = "done"
    /\ UNCHANGED <<txUrlSet, blockUrlSet, inbox, mi, listed, processed, posts,
                   visited, raisedIds, archiveCalls, archRaised, archived>>

\* main: request_json = request.get_json(silent=True) and the routing tests.
\* "request_json and request_json.get(...)": a falsy body skips both routes;
\* a truthy body that is not a dict has no .get (AttributeError, raised
\* outside any try block)
Route ==
    /\ mpc = "idle"
    /\ IF req.truthy /\ req.kind # "object"
       THEN /\ mpc' = "raised"
            /\ resp' = resp
       ELSE IF req.truthy /\ req.action = "renew_watch"
       THEN /\ mpc' = "renew"
            /\ resp' = resp
       ELSE IF req.truthy /\ req.message # "absent"
       THEN /\ mpc' = "decode"
            /\ resp' = resp
       ELSE /\ mpc' = "done"
            /\ resp' = [code |-> 400, status |-> "invalid"]
    /\ UNCHANGED <<req, renewCalls, emailCalls>>

\* route 1: renew_gmail_watch returns (200) or raises (500)
RenewWatch ==
    /\ mpc = "renew"
    /\ renewCalls' = renewCalls + 1
    /\ \E ok \in BOOLEAN :
         resp' = IF ok THEN [code |-> 200, status |-> "ok"]
                      ELSE [code |-> 500, status |-> "error"]
    /\ mpc' = "done"
    /\ UNCHANGED <<req, emailCalls>>

\* route 2, inside the try: "data" in pubsub_message (TypeError on null),
\* base64 and JSON decoding, then the call of process_email; an exception
\* is answered 200 with status "error"
Decode ==
    /\ mpc = "decode"
    /\ IF req.message \in {"null", "baddata"}
       THEN /\ resp' = [code |-> 200, status |-> "error"]
            /\ mpc' = "done"
            /\ emailCalls' = emailCalls
       ELSE /\ emailCalls' = emailCalls + 1
            /\ mpc' = "email"
            /\ resp' = resp
    /\ UNCHANGED <<req, renewCalls>>

\* route 2: process_email returned (200, status "ok" with its result) or
\* raised (200, status "error")
Respond ==
    /\ mpc = "email"
    /\ epc \in {"done", "raised"}
    /\ resp' = IF epc = "done" THEN [code |-> 200, status |-> "ok"]
                               ELSE [code |-> 200, status |-> "error"]
    /\ mpc' = "done"
    /\ UNCHANGED <<req, renewCalls, emailCalls>>

\* ---------------------------------------------------------- specifications
\* the state of the bot a specification does not run
PollIdle ==
    /\ webhookSet = TRUE
    /\ schedule = <<>>
    /\ today = 1
    /\ store = {}
    /\ delivered = [k \in Dates \X Urls |-> 0]
    /\ marked = {}
    /\ markFailed = FALSE
    /\ pc = [c \in Procs |-> "idle"]
    /\ date_str = [c \in Procs |-> 0]
    /\ games = [c \in Procs |-> <<>>]
    /\ gi = [c \in Procs |-> 0]
    /\ hi = [c \in Procs |-> 0]
    /\ attempts = [c \in Procs |-> 0]
    /\ last = [c \in Procs |-> NoAnswer]
    /\ exc = [c \in Procs |-> NoExc]
    /\ checked = [c \in Procs |-> 0]
    /\ statusCode = [c \in Procs |-> 0]
    /\ fetched = [c \in Procs |-> "none"]
    /\ tried = [c \in Procs |-> {}]
    /\ failed = [c \in Procs |-> {}]

EntryIdle ==
    /\ req = NoBody
    /\ mpc = "idle"
    /\ resp = NoResponse
    /\ renewCalls = 0
    /\ emailCalls = 0

EmailIdle ==
    /\ txUrlSet = TRUE
    /\ blockUrlSet = TRUE
    /\ inbox = <<>>
    /\ epc = "start"
    /\ mi = 0
    /\ listed = "none"
    /\ status = "none"
    /\ hasList = FALSE
    /\ processed = <<>>
    /\ posts = <<>>
    /\ visited = {}
    /\ raisedIds = {}
    /\ archiveCalls = [m \in MsgIds |-> 0]
    /\ archRaised = {}
    /\ archived = {}

\* poll cycles one after the other
PureIdle == DetectIdle /\ ParseIdle

Init == PollInit /\ EmailIdle /\ EntryIdle /\ PureIdle

Next ==
    \/ \E c \in Procs : (StartCycle(c) /\ UNCHANGED <<emailVars, entryVars, pureVars>>)
    \/ \E c \in Procs : (CycleStep(c) /\ UNCHANGED <<emailVars, entryVars, pureVars>>)

Spec == Init /\ [][Next]_vars

\* one poll cycle
NextCycle ==
    \/ (StartCycle(1) /\ UNCHANGED <<emailVars, entryVars, pureVars>>)
    \/ (CycleStep(1) /\ UNCHANGED <<emailVars, entryVars, pureVars>>)

SpecCycle == Init /\ [][NextCycle]_vars

\* poll cycles that may overlap
NextConc ==
    \/ \E c \in Procs : (StartCycleConc(c) /\ UNCHANGED <<emailVars, entryVars, pureVars>>)
    \/ \E c \in Procs : (CycleStep(c) /\ UNCHANGED <<emailVars, entryVars, pureVars>>)

\* the overlap is explored on schedules of one game
InitConc == Init /\ Len(schedule) <= 1

SpecConc == InitConc /\ [][NextConc]_vars

\* two poll cycles one after the other, on schedules of one game
NextRepeat ==
    \/ \E c \in ConcProcs : (StartCycle(c) /\ UNCHANGED <<emailVars, entryVars, pureVars>>)
    \/ \E c \in ConcProcs : (CycleStep(c) /\ UNCHANGED <<emailVars, entryVars, pureVars>>)

SpecRepeat == InitConc /\ [][NextRepeat]_vars

\* one pass of process_email
InitEmail == EmailInit /\ PollIdle /\ EntryIdle /\ PureIdle

NextEmail ==
    \/ (ListMessages /\ UNCHANGED <<pollVars, entryVars, pureVars>>)
    \/ (ProcessSingle /\ UNCHANGED <<pollVars, entryVars, pureVars>>)
    \/ (ArchiveInTry /\ UNCHANGED <<pollVars, entryVars, pureVars>>)
    \/ (ArchiveInHandler /\ UNCHANGED <<pollVars, entryVars, pureVars>>)
    \/ (ReturnProcessed /\ UNCHANGED <<pollVars, entryVars, pureVars>>)

SpecEmail == InitEmail /\ [][NextEmail]_vars

\* one invocation of one of the two entry points: a poll cycle, or a push
\* request whose pass over the inbox finds at most one message
InitInvoke ==
    \/ (PollInit /\ EmailIdle /\ EntryIdle /\ PureIdle)
    \/ /\ PollIdle
       /\ PureIdle
       /\ EmailInit
       /\ Len(inbox) <= 1
       /\ req \in Bodies
       /\ mpc = "idle"
       /\ resp = NoResponse
       /\ renewCalls = 0
       /\ emailCalls = 0

PassStep ==
    \/ ListMessages
    \/ ProcessSingle
    \/ ArchiveInTry
    \/ ArchiveInHandler
    \/ ReturnProcessed

NextInvoke ==
    \/ (mpc = "idle" /\ StartCycle(1) /\ UNCHANGED <<emailVars, entryVars, pureVars>>)
    \/ (CycleStep(1) /\ UNCHANGED <<emailVars, entryVars, pureVars>>)
    \/ (pc[1] = "idle" /\ Route /\ UNCHANGED <<pollVars, emailVars, pureVars>>)
    \/ (RenewWatch /\ UNCHANGED <<pollVars, emailVars, pureVars>>)
    \/ (Decode /\ UNCHANGED <<pollVars, emailVars, pureVars>>)
    \/ (mpc = "email" /\ PassStep /\ UNCHANGED <<pollVars, entryVars, pureVars>>)
    \/ (Respond /\ UNCHANGED <<pollVars, emailVars, pureVars>>)

SpecInvoke == InitInvoke /\ [][NextInvoke]_vars

\* _detect_transaction_type applied to a subject
InitDetect == DetectInit /\ ParseIdle /\ PollIdle /\ EmailIdle /\ EntryIdle

NextDetect == Detect /\ UNCHANGED <<pollVars, emailVars, entryVars, parseVars>>

SpecDetect == InitDetect /\ [][NextDetect]_vars

\* _parse_trade_block applied to a text
InitParse == ParseInit /\ DetectIdle /\ PollIdle /\ EmailIdle /\ EntryIdle

NextParse == ParseBlock /\ UNCHANGED <<pollVars, emailVars, entryVars, detectVars>>

SpecParse == InitParse /\ [][NextParse]_vars

\* ------------------------------------------------------------------ claims
AllKeys == Dates \X Urls
HTTP(s) == [kind |-> "HTTP", status |-> s]

\* the post_to_discord call of cycle c has ended: it returned (main is at
\* mark_video_posted) or it raised into main's except clause
CallReturned(c) == pc[c] = "mark" /\ webhookSet
CallRaised(c) == pc[c] = "except" /\ exc[c] # StoreError
CallEnded(c) == CallReturned(c) \/ CallRaised(c)

\* the places of the schedule that list url u
UrlPlaces(u) ==
    { gh \in (1..Len(schedule)) \X (1..MaxHighlights) :
        /\ gh[2] <= Len(schedule[gh[1]].hrs)
        /\ schedule[gh[1]].hrs[gh[2]] = u }

\* C1 (as claimed): across non-overlapping poll cycles on one date, a
\* highlight (a video url the schedule lists once) is delivered to the webhook
\* at most once, whatever the outcomes of the posts and of the dedup writes.
C1_PostedAtMostOnce ==
    \A d \in Dates, u \in Urls :
        Cardinality(UrlPlaces(u)) <= 1 => delivered[<<d, u>>] <= 1

\* C2 (as claimed): a dedup record exists only for a highlight that was
\* delivered to the webhook, also when the webhook url is not configured.
C2_RecordOnlyAfterDelivery ==
    \A d \in Dates, u \in Urls :
        has_posted_video(store, d, u) => delivered[<<d, u>>] >= 1

\* C4 (as claimed): an HTTP error answer with a status in
\* {429, 500, 502, 503, 504} is retried: a call answered 503 does not end
\* before its third attempt (503, 503, 200 returns after exactly 3 attempts),
\* and such an error reaches the caller only from the third attempt.
C4_RetryableStatusRetried ==
    \A c \in Procs :
        /\ (CallEnded(c) /\ last[c] = HTTP(503)) => attempts[c] = 3
        /\ (CallRaised(c) /\ exc[c].kind = "HTTPError"
                /\ exc[c].status \in retryable_status_codes)
              => attempts[c] = 3

\* C5: an HTTP error answer with a status outside {429, 500, 502, 503, 504}
\* ends the call at that attempt: no attempt follows it and the HTTPError is
\* raised to main; when it is the first answer, exactly one attempt was made.
NonRetryableAnswer(o) ==
    o.kind = "HTTP" /\ RaisesForStatus(o.status) /\ o.status \notin retryable_status_codes

C5_NonRetryableNotRetried ==
    \A c \in Procs :
        NonRetryableAnswer(last[c]) =>
            /\ pc[c] = "except"
            /\ exc[c] = [kind |-> "HTTPError", status |-> last[c].status]

C5_Witness == \E c \in Procs : pc[c] = "except" /\ attempts[c] = 1 /\ last[c] = HTTP(404)

\* C6: a call never makes more than 3 attempts; a connection failure or a
\* timeout before the third attempt is followed by another attempt, and at
\* the third attempt it is raised to main.
Transient(o) == o.kind \in {"ConnectionError", "Timeout"}

C6_AtMostThreeAttempts ==
    \A c \in Procs :
        /\ attempts[c] <= 3
        /\ Transient(last[c]) =>
              IF attempts[c] < 3
              THEN pc[c] = "post"
              ELSE pc[c] = "except" /\ exc[c] = last[c]

C6_Witness ==
    \E c \in Procs :
        /\ pc[c] = "except"
        /\ attempts[c] = 3
        /\ exc[c].kind = "Timeout"

\* C7: an error of post_to_discord or of mark_video_posted is caught: from
\* the except clause the cycle goes on with the next highlight of the same
\* game, a cycle never skips a highlight, and a cycle that returns has
\* checked every highlight of every eligible game and returns statusCode 200.
C7_ErrorsAbsorbed ==
    /\ [][\A c \in Procs :
            pc[c] = "except" =>
                \/ pc'[c] = "except"
                \/ pc'[c] = "hl" /\ gi'[c] = gi[c] /\ hi'[c] = hi[c] + 1]_vars
    /\ [](\A c \in Procs :
            pc[c] = "done" =>
                /\ statusCode[c] = 200
                /\ checked[c] = SumLen(games[c]))

\* a cycle whose two highlights both failed to post, and which returned
C7_Witness ==
    /\ pc[1] = "done"
    /\ statusCode[1] = 200
    /\ webhookSet
    /\ Len(games[1]) = 2
    /\ checked[1] = 2
    /\ store = {}
    /\ ~markFailed
    /\ \A k \in AllKeys : delivered[k] = 0

\* C8: with two overlapping cycles the same highlight can be posted twice on
\* one date (C8_Witness: both cycles read "not posted" before either wrote);
\* what the dedup gate still gives is one delivery per cycle: as long as no
\* dedup write failed, a highlight is delivered at most once by each cycle
\* that ran on the date.
CyclesOn(d) == {c \in Procs : pc[c] # "idle" /\ date_str[c] = d}

C8_OneDeliveryPerCycle ==
    ~markFailed => \A k \in AllKeys : delivered[k] <= Cardinality(CyclesOn(k[1]))

C8_Witness ==
    /\ SumLen(schedule) = 1
    /\ pc[1] = "mark"
    /\ pc[2] = "mark"
    /\ date_str[1] = date_str[2]
    /\ ~markFailed
    /\ store = {}
    /\ delivered[<<date_str[1], CurUrl(1)>>] = 2

\* C9: has_posted_video(date, url) is true exactly for the (date, url) whose
\* mark_video_posted completed (false with no record, true after the write),
\* and the step that calls has_posted_video leaves the store unchanged.
C9_HasPostedAfterMark ==
    /\ [](\A d \in Dates, u \in Urls :
            has_posted_video(store, d, u) <=> <<d, u>> \in marked)
    /\ [][\A c \in Procs : checked'[c] # checked[c] => store' = store]_vars

\* the second highlight of a game is the url of the first: after the first
\* was marked, the read of the second returned true and it was skipped
C9_Witness ==
    \E c \in Procs :
        /\ pc[c] = "hl"
        /\ Highlights(c) = <<"u1", "u1">>
        /\ hi[c] = 3
        /\ checked[c] = 2
        /\ marked = {<<date_str[c], "u1">>}
        /\ delivered[<<date_str[c], "u1">>] = 1
        /\ ~has_posted_video(store, date_str[c], "u2")

\* C3 (as claimed): in one pass the archive call is issued exactly once for
\* every listed message, also when the archive call itself raises.
Handled(m) == m < mi \/ epc = "done"

C3_ArchiveExactlyOnce ==
    listed = "ok" =>
        \A m \in 1..Len(inbox) : Handled(m) => archiveCalls[m] = 1

\* C3 (amended): for every listed message the pass is through with, the
\* archive call was issued exactly once, whatever the fetch, parse or post
\* did, unless the archive call at the end of the try block raised: then the
\* except clause issued it a second time.  No call is issued ahead of the loop.
C3_ArchiveOnceOrRetried ==
    listed = "ok" =>
        \A m \in 1..Len(inbox) :
            /\ Handled(m) => archiveCalls[m] = (IF m \in archRaised THEN 2 ELSE 1)
            /\ m > mi => archiveCalls[m] = 0

C3_Witness ==
    /\ epc = "done"
    /\ \E m \in raisedIds : archiveCalls[m] = 1 /\ m \notin archived
    /\ \E m \in archRaised : archiveCalls[m] = 2 /\ m \in archived

\* the entries the successful posts put in the result list
RECURSIVE ResultsOf(_)
ResultsOf(ps) ==
    IF ps = <<>>
    THEN <<>>
    ELSE LET p == Head(ps)
         IN  IF p.ok
             THEN <<[message_id |-> p.message_id, type |-> inbox[p.message_id].ttype]>>
                      \o ResultsOf(Tail(ps))
             ELSE ResultsOf(Tail(ps))

\* C10 (as claimed): per-message exceptions never leave process_email, and
\* whenever the listing succeeded the operation returns status "ok" with the
\* result list, every listed message having been processed.
C10_ListedMeansOkWithList ==
    listed = "ok" =>
        /\ epc # "raised"
        /\ epc = "done" =>
              /\ status = "ok"
              /\ hasList
              /\ visited = 1..Len(inbox)

\* C10 (amended): per-message exceptions never leave process_email; when the
\* listing succeeded and returned at least one message, every listed message
\* is processed and the operation returns status "ok" with the list of the
\* messages posted; when the listing returned no message it returns status
\* "skipped" without a result list.
C10_ListedNonEmptyMeansOk ==
    listed = "ok" =>
        /\ epc # "raised"
        /\ epc = "done" =>
              IF inbox = <<>>
              THEN status = "skipped" /\ ~hasList
              ELSE /\ status = "ok"
                   /\ hasList
                   /\ visited = 1..Len(inbox)
                   /\ processed = ResultsOf(posts)

\* the first message raised, a later one was posted and reported
C10_Witness ==
    /\ epc = "done"
    /\ status = "ok"
    /\ 1 \in raisedIds
    /\ Len(processed) = 1
    /\ processed[1].message_id = 2

\* the posts made for message m, and whether m has an entry in the result list
PostsOf(m) == {i \in 1..Len(posts) : posts[i].message_id = m}
Reported(m) == \E i \in 1..Len(processed) : processed[i].message_id = m
KnownType(m) == inbox[m].ttype \in {CLAIM, DROP, TRADE, BLOCK, DRAFT}

\* C11: a listed message whose subject classifies as Unknown, or that has no
\* HTML body, is never posted to a webhook and gets no entry in the result
\* list, and once the pass is through with it its archive call was issued.
C11_SkippedNotPostedButArchived ==
    listed = "ok" =>
        \A m \in 1..Len(inbox) :
            (inbox[m].ttype = UNKNOWN \/ ~inbox[m].html) =>
                /\ PostsOf(m) = {}
                /\ ~Reported(m)
                /\ Handled(m) => archiveCalls[m] >= 1

\* a body-less message of a known type was fetched, skipped and archived by
\* the call of the try block, and an Unknown one too
C11_Witness ==
    /\ epc = "done"
    /\ Len(inbox) = 2
    /\ inbox[1].ttype = BLOCK /\ ~inbox[1].html
    /\ inbox[2].ttype = UNKNOWN
    /\ raisedIds = {}
    /\ archRaised = {}
    /\ archived = {1, 2}
    /\ archiveCalls[1] = 1 /\ archiveCalls[2] = 1
    /\ posts = <<>>

\* C17: a post goes to the trade-block webhook exactly when the message is a
\* Block, and to the transactions webhook for every other known type, and only
\* to a webhook whose url is configured; a message whose selected url is not
\* configured is not posted, gets no result entry, and its archive call is
\* still issued.
C17_RoutedByType ==
    /\ \A i \in 1..Len(posts) :
         LET t == inbox[posts[i].message_id].ttype
         IN  /\ t # UNKNOWN
             /\ posts[i].hook = (IF t = BLOCK THEN "trade_block" ELSE "transactions")
             /\ (posts[i].hook = "trade_block" => blockUrlSet)
             /\ (posts[i].hook = "transactions" => txUrlSet)
    /\ listed = "ok" =>
         \A m \in 1..Len(inbox) :
            (KnownType(m) /\ (IF inbox[m].ttype = BLOCK THEN ~blockUrlSet ELSE ~txUrlSet)) =>
                /\ PostsOf(m) = {}
                /\ ~Reported(m)
                /\ Handled(m) => archiveCalls[m] >= 1

\* only the transactions url is configured: the Block message was left
\* unposted and archived, the Claim message went to the transactions webhook
C17_Witness ==
    /\ epc = "done"
    /\ ~blockUrlSet /\ txUrlSet
    /\ Len(inbox) = 2
    /\ inbox[1].ttype = BLOCK /\ inbox[1].html
    /\ inbox[2].ttype = CLAIM
    /\ 1 \notin raisedIds
    /\ archiveCalls[1] = 1 /\ 1 \in archived
    /\ Len(posts) = 1
    /\ posts[1].message_id = 2 /\ posts[1].hook = "transactions" /\ posts[1].ok
    /\ processed = <<[message_id |-> 2, type |-> CLAIM]>>

\* what the post of message m must carry: the title of its type, and an empty
\* details section when the extractor returned None
ContentFits(m, c) ==
    /\ c.title = inbox[m].ttype
    /\ (~inbox[m].data => c.details = "")
    /\ (inbox[m].data => c.details # "")

Postable(m) ==
    /\ KnownType(m)
    /\ inbox[m].html
    /\ (IF inbox[m].ttype = BLOCK THEN blockUrlSet ELSE txUrlSet)

\* C18 (as claimed): every message of a known type with an HTML body and a
\* configured webhook gets exactly one post, also when the extractor yields
\* no data (title with empty details), and is reported iff the post succeeded.
C18_ExactlyOnePost ==
    listed = "ok" =>
        \A m \in 1..Len(inbox) :
            (Handled(m) /\ Postable(m)) =>
                /\ Cardinality(PostsOf(m)) = 1
                /\ \A i \in PostsOf(m) :
                      /\ ContentFits(m, posts[i].content)
                      /\ (posts[i].ok <=> Reported(m))

\* C18 (amended): such a message gets at most one post, and none only when
\* fetching the message or decoding or extracting its body raised (the
\* message is then archived by the except clause, unposted and unreported);
\* an extractor that returns None does not prevent the post: it carries the
\* title of the type with empty details; the message is reported iff its
\* post succeeded.
C18_OnePostUnlessRaised ==
    listed = "ok" =>
        \A m \in 1..Len(inbox) :
            (Handled(m) /\ Postable(m)) =>
                /\ Cardinality(PostsOf(m)) <= 1
                /\ (PostsOf(m) = {} => m \in raisedIds /\ ~Reported(m))
                /\ \A i \in PostsOf(m) :
                      /\ ContentFits(m, posts[i].content)
                      /\ (posts[i].ok <=> Reported(m))
                      /\ (posts[i].ok <=> m \notin raisedIds)

\* a Block whose parser found no team and a Trade whose parser found no
\* anchor phrase were both posted with empty details and reported
C18_Witness ==
    /\ epc = "done"
    /\ Len(inbox) = 2
    /\ inbox[1].ttype = BLOCK /\ inbox[1].html /\ ~inbox[1].data
    /\ inbox[2].ttype = TRADE /\ inbox[2].html /\ ~inbox[2].data
    /\ Len(posts) = 2
    /\ posts[1].content = [title |-> BLOCK, details |-> ""]
    /\ posts[2].content = [title |-> TRADE, details |-> ""]
    /\ posts[1].hook = "trade_block" /\ posts[2].hook = "transactions"
    /\ processed = <<[message_id |-> 1, type |-> BLOCK], [message_id |-> 2, type |-> TRADE]>>

\* the urls cycle c sees: the highlights of the games its loop takes
SeenBy(c) ==
    { u \in Urls : \E g \in 1..Len(games[c]) :
        /\ Eligible(games[c][g])
        /\ \E h \in 1..Len(games[c][g].hrs) : games[c][g].hrs[h] = u }

\* C16: a failed post leaves no dedup record (the failing call and the except
\* clause write nothing); a later cycle on the same date that sees the
\* highlight and runs to its end has attempted the post again, unless a post
\* of it had succeeded and been recorded in between; and a highlight whose
\* post failed is recorded only once a post of it was delivered.
C16_FailedPostRetriedNextCycle ==
    /\ [](\A c \in Procs :
            CallRaised(c) => ~has_posted_video(store, date_str[c], CurUrl(c)))
    /\ [][\A c \in Procs : pc[c] = "except" /\ exc[c] # StoreError => store' = store]_vars
    /\ [](\A c1 \in Procs, c2 \in Procs, u \in Urls :
            ( /\ c1 < c2
              /\ u \in failed[c1]
              /\ date_str[c2] = date_str[c1]
              /\ pc[c2] = "done"
              /\ u \in SeenBy(c2) )
            => \/ u \in tried[c2]
               \/ <<date_str[c1], u>> \in marked)
    /\ [](\A c \in Procs : \A u \in failed[c] :
            has_posted_video(store, date_str[c], u) => delivered[<<date_str[c], u>>] >= 1)

\* the post of u1 failed in the first cycle and left no record; the second
\* cycle, on the same date, posted it and recorded it
C16_Witness ==
    /\ pc[1] = "done" /\ pc[2] = "done"
    /\ date_str[1] = date_str[2]
    /\ failed[1] = {"u1"}
    /\ ~has_posted_video(store, date_str[1], "u2")
    /\ tried[2] = {"u1"}
    /\ failed[2] = {}
    /\ delivered[<<date_str[1], "u1">>] = 1
    /\ marked = {<<date_str[1], "u1">>}

\* C12 (as claimed): the push entry point routes every request to exactly
\* one outcome: action = renew_watch triggers only the renewal; otherwise a
\* message key triggers only the inbox processing and is answered 200, also
\* when decoding or processing raises; every other body, including none, is
\* answered 400 with neither renewal nor processing; main never raises.
C12_EveryRequestRouted ==
    /\ mpc # "raised"
    /\ IF req.action = "renew_watch"
       THEN /\ emailCalls = 0
            /\ mpc = "done" => renewCalls = 1 /\ resp.code \in {200, 500}
       ELSE IF req.message # "absent"
       THEN /\ renewCalls = 0
            /\ emailCalls <= 1
            /\ mpc = "done" => resp.code = 200
       ELSE /\ renewCalls = 0
            /\ emailCalls = 0
            /\ mpc = "done" => resp.code = 400

\* C13 (as claimed): a failed schedule fetch, or a failed inbox listing,
\* aborts the per-item work of the invocation, which returns an error-shaped
\* result and does not raise.
C13_CycleFailureReturnsError ==
    /\ \A c \in Procs :
         fetched[c] = "failed" =>
            /\ games[c] = <<>>
            /\ checked[c] = 0
            /\ tried[c] = {}
            /\ pc[c] # "crashed"
            /\ pc[c] = "done" => statusCode[c] # 200
    /\ listed = "failed" =>
            /\ visited = {}
            /\ posts = <<>>
            /\ \A m \in MsgIds : archiveCalls[m] = 0
            /\ epc = "done"
            /\ status = "error"
            /\ mpc # "raised"

\* C13 (amended): a failed schedule fetch leaves the poll cycle with no game:
\* no highlight is checked or posted, nothing is raised, and main returns its
\* ordinary status object with statusCode 200; a failed inbox listing makes
\* process_email return status "error" with no message processed or archived,
\* which the push entry point answers with code 200 and status "ok".
C13_CycleFailureAbortsWork ==
    /\ \A c \in Procs :
         fetched[c] = "failed" =>
            /\ games[c] = <<>>
            /\ checked[c] = 0
            /\ tried[c] = {}
            /\ pc[c] # "crashed"
            /\ pc[c] = "done" => statusCode[c] = 200
    /\ listed = "failed" =>
            /\ visited = {}
            /\ posts = <<>>
            /\ \A m \in MsgIds : archiveCalls[m] = 0
            /\ epc = "done"
            /\ status = "error"
            /\ ~hasList
            /\ mpc # "raised"
            /\ mpc = "done" => resp = [code |-> 200, status |-> "ok"]

\* the schedule lists a Live game with a highlight, the fetch failed, and
\* the cycle returned 200 without looking at it
C13_Witness ==
    /\ pc[1] = "done"
    /\ fetched[1] = "failed"
    /\ statusCode[1] = 200
    /\ SumLen(schedule) >= 1
    /\ Eligible(schedule[1])
    /\ checked[1] = 0
    /\ \A k \in AllKeys : delivered[k] = 0

\* the substrings in their fixed order, and whether one occurs in the
\* subject, upper or lower case, at any position
PhraseAt(r) ==
    CASE r = 1 -> <<"player(s)", "claimed">>
      [] r = 2 -> <<"free agents added to pool">>
      [] r = 3 -> <<"trade", "executed">>
      [] r = 4 -> <<"trade", "block changed">>
      [] r = 5 -> <<"draft pick made">>

VariantAt(r) ==
    CASE r = 1 -> CLAIM [] r = 2 -> DROP [] r = 3 -> TRADE [] r = 4 -> BLOCK [] r = 5 -> DRAFT

Occurs(r) ==
    \E i \in 1..Len(subject.words) :
        /\ i + Len(PhraseAt(r)) - 1 <= Len(subject.words)
        /\ \A j \in 1..Len(PhraseAt(r)) : subject.words[i + j - 1] = PhraseAt(r)[j]

\* C14: _detect_transaction_type returns one of the six variants for every
\* subject: the variant of the earliest substring, in the fixed order, that
\* the subject contains in any letter case and at any position, and Unknown
\* when it contains none.
C14_FirstMatchInFixedOrder ==
    ttypeOut # "none" =>
        /\ ttypeOut \in Types
        /\ \A r \in 1..5 :
              (Occurs(r) /\ \A q \in 1..(r - 1) : ~Occurs(q)) => ttypeOut = VariantAt(r)
        /\ (\A r \in 1..5 : ~Occurs(r)) => ttypeOut = UNKNOWN

\* an upper-case subject with "draft pick made" ahead of "player(s) claimed"
C14_Witness ==
    /\ subject.case = "upper"
    /\ subject.words = <<"re:", "draft pick made", "player(s)", "claimed">>
    /\ ttypeOut = CLAIM

\* the section of a label is absent or blank in the text
AbsentOrBlank(l) ==
    \/ l \notin blockText.labels
    \/ \A i \in 1..Len(blockText.body[l]) : blockText.body[l][i] \in Whitespace

RECURSIVE Flatten(_)
Flatten(ss) == IF ss = <<>> THEN <<>> ELSE Head(ss) \o Flatten(Tail(ss))

\* players_offered lists the names of the extracted section in input order:
\* each entry is a name without surrounding whitespace, and their words are
\* the words of the section, in order
PlayersInOrder ==
    LET section == IF {PlayersOffered, PositionsOffered} \subseteq blockText.labels
                   THEN blockText.body[PlayersOffered]
                   ELSE <<>>
    IN  /\ SelectSeq(Flatten(offer.players_offered), IsWord) = SelectSeq(section, IsWord)
        /\ \A k \in 1..Len(offer.players_offered) :
              LET name == offer.players_offered[k]
              IN  name # <<>> /\ IsWord(name[1]) /\ IsWord(name[Len(name)])

\* C15 (as claimed): in a returned Trade-Block Offer every text field whose
\* section is absent or blank, comment included, equals "(None specified)",
\* and players_offered keeps the input order of the names.
C15_AllFieldsDefaultToSentinel ==
    (parsed /\ ~offer.none) =>
        /\ (AbsentOrBlank(PositionsOffered) => offer.positions_offered = Sentinel)
        /\ (AbsentOrBlank(StatsOffered) => offer.stats_offered = Sentinel)
        /\ (AbsentOrBlank(PositionsNeeded) => offer.positions_needed = Sentinel)
        /\ (AbsentOrBlank(StatsNeeded) => offer.stats_needed = Sentinel)
        /\ (AbsentOrBlank(Comment) => offer.comment = Sentinel)
        /\ PlayersInOrder

\* C15 (amended): in a returned Trade-Block Offer each of positions_offered,
\* stats_offered, positions_needed and stats_needed whose section is absent
\* or blank equals "(None specified)"; comment has no default: it is the
\* empty string when its section is absent or blank; players_offered keeps
\* the input order of the names.
C15_FourFieldsDefaultToSentinel ==
    (parsed /\ ~offer.none) =>
        /\ (AbsentOrBlank(PositionsOffered) => offer.positions_offered = Sentinel)
        /\ (AbsentOrBlank(StatsOffered) => offer.stats_offered = Sentinel)
        /\ (AbsentOrBlank(PositionsNeeded) => offer.positions_needed = Sentinel)
        /\ (AbsentOrBlank(StatsNeeded) => offer.stats_needed = Sentinel)
        /\ (AbsentOrBlank(Comment) => offer.comment = <<>>)
        /\ PlayersInOrder

\* all labels present, three names on separate lines, the other sections
\* blank: three names in order, four sentinels, an empty comment
C15_Witness ==
    /\ parsed
    /\ blockText.labels = Labels
    /\ blockText.body[PlayersOffered] = <<"n2", "nl", "n1">>
    /\ \A l \in Labels \ {PlayersOffered} : blockText.body[l] = <<"sp">>
    /\ offer.team = <<"Grand Salamis">>
    /\ blockText.team = <<"The Don Orsillo Open", "Grand Salamis">>
    /\ offer.players_offered = << <<"n2">>, <<"n1">> >>
    /\ offer.positions_offered = Sentinel
    /\ offer.stats_needed = Sentinel
    /\ offer.comment = <<>>

====
